---- MODULE Spec2Model ----
(***************************************************************************)
(* NSE labeling engine (storage-proofs/porep/src/nse/vanilla/labels.rs):   *)
(* the layer functions, encode_with_trees, decode and the batch front end  *)
(* encode_with_trees_all with its GPU and CPU backends.                    *)
(*                                                                         *)
(* Scale.  A node is 32 bytes in the program; here a node is one integer   *)
(* of 4 bits (0..NodeMax).  truncate_hash clears the two high bits of the  *)
(* node, and the field modulus lies strictly between 2^(bits-2) and        *)
(* 2^(bits-1), as the BLS12-381 scalar modulus lies between 2^254 and      *)
(* 2^255: every truncated node is a field element, not every node is.      *)
(* A buffer is a sequence of nodes; its byte length is NODE_SIZE per node. *)
(* Node i of the program (0-based) is element i+1 of the sequence.         *)
(***************************************************************************)
EXTENDS Integers, Sequences, FiniteSets, TLC

\* ------------------------------------------------------------------ scale

NODE_SIZE == 32

NodeMax == 2^4 - 1        \* largest node value (stands for 2^256 - 1)
TruncRange == 2^2         \* truncated nodes are 0..TruncRange-1 (stands for 2^254)
Modulus == 2^3 - 1        \* field modulus (TruncRange < Modulus < 2 * TruncRange)
HashState == 1009         \* size of the model hash's internal state
U32Range == 2^3           \* a u32 is 0..U32Range-1 (stands for 2^32)
U64Range == U32Range * U32Range   \* a u64 is 0..U64Range-1 (stands for 2^64)

\* --------------------------------------------------------------- bounds

MaxExpanderLayers == 2    \* num_expander_layers ranges over 0..MaxExpanderLayers
MaxButterflyLayers == 2   \* num_butterfly_layers ranges over 1..MaxButterflyLayers
MaxWindows == 2           \* a batch holds 1..MaxWindows windows
MaxWindowIndex == 1       \* window_index ranges over 0..MaxWindowIndex

\* --------------------------------------------------------------- helpers

Min(a, b) == IF a < b THEN a ELSE b

Range(s) == {s[i] : i \in 1..Len(s)}

Zeros(n) == [i \in 1..n |-> 0]

\* a buffer as the sequence of the values of its nodes
NodesOf(f) == f \o <<>>

RECURSIVE Pow(_, _)
Pow(b, e) == IF e <= 0 THEN 1 ELSE b * Pow(b, e - 1)

\* byte `k` (0 = least significant) of the non-negative integer v; the integers
\* of the model stay below 256^4, so the bytes from the fifth on are zero
ByteAt(v, k) == IF k > 3 THEN 0 ELSE (v \div (256 ^ k)) % 256

\* v.to_be_bytes() for an integer of n bytes
ToBeBytes(v, n) == [i \in 1..n |-> ByteAt(v, n - i)]

\* ----------------------------------------------------------------- Config

\* Config::num_layers
NumLayers(cfg) == cfg.num_expander_layers + cfg.num_butterfly_layers

\* Config::window_size, in bytes
WindowSize(cfg) == cfg.num_nodes_window * NODE_SIZE

\* slice.len() of a buffer of nodes, in bytes
ByteLen(buf) == Len(buf) * NODE_SIZE

\* the configurations explored: the shape of sample_config, scaled down
Configs ==
    [k : {2}, num_nodes_window : {2}, degree_expander : {2}, degree_butterfly : {2},
     num_expander_layers : 0..MaxExpanderLayers,
     num_butterfly_layers : 1..MaxButterflyLayers]

\* --------------------------------------------------------------- hashing

\* Sha256::new(): the state of a fresh hasher
Sha256New == 17

\* Sha256::input(&[..]): absorb a sequence of values, in order
RECURSIVE Sha256InputFrom(_, _, _)
Sha256InputFrom(h, s, i) ==
    IF i > Len(s) THEN h
    ELSE Sha256InputFrom((h * 31 + s[i] + 7) % HashState, s, i + 1)
Sha256Input(h, s) == Sha256InputFrom(h, s, 1)

\* Sha256::finish(): the digest, one node
Sha256Finish(h) == (h * 13 + 5) % (NodeMax + 1)

\* Sha256::digest(&[..])
Sha256Digest(s) == Sha256Finish(Sha256Input(Sha256New, s))

\* truncate_hash: clear the two high bits of the node
TruncateHash(v) == v % TruncRange

\* hash_prefix(layer, node_index): 32 bytes
HashPrefixIndexFirst(layer, node_index) ==
    ToBeBytes(node_index, 8) \o ToBeBytes(layer, 4) \o Zeros(20)
HashPrefix(layer, node_index) ==
    ToBeBytes(layer, 4) \o ToBeBytes(node_index, 8) \o Zeros(20)

\* window_index as u64 * config.num_nodes_window as u64 + node_index as u64:
\* the operands are widened first, the product and the sum are u64
NodeAbsoluteIndexU32(cfg, window_index, node_index) ==
    (((window_index * cfg.num_nodes_window) % U32Range) + node_index) % U32Range
NodeAbsoluteIndex(cfg, window_index, node_index) ==
    (((window_index * cfg.num_nodes_window) % U64Range) + node_index) % U64Range

\* the hasher primed with prefix and replica id
PrimedHasher(cfg, window_index, replica_id, layer_index, node_index) ==
    Sha256Input(Sha256New,
        HashPrefix(layer_index, NodeAbsoluteIndex(cfg, window_index, node_index))
            \o <<replica_id>>)

\* ------------------------------------------------------------ field, domain

\* Domain::try_from_bytes succeeds
IsFr(v) == v < Modulus

\* encode::encode(key, value) = key + value in the field
FieldEncode(key, value) == (key + value) % Modulus

\* encode::decode(key, value) = value - key in the field
FieldDecode(key, value) == (value + Modulus - key) % Modulus

\* ------------------------------------------------------------------ graphs

\* ExpanderGraph::expanded_parents(node_index): k * degree_expander parents
ExpandedParents(cfg, node_index) ==
    [j \in 1..(cfg.k * cfg.degree_expander) |->
        ((node_index + 1) * j + ((j - 1) \div cfg.k)) % cfg.num_nodes_window]

\* ButterflyGraph::parents(node_index, layer_index): degree_butterfly parents
ButterflyParents(cfg, node_index, layer_index) ==
    LET factor == Pow(cfg.degree_butterfly, NumLayers(cfg) - layer_index)
    IN  [j \in 1..cfg.degree_butterfly |->
            (node_index + (j - 1) * factor) % cfg.num_nodes_window]

\* batch_hash(k, degree, hasher, parents, data)
BatchHash(k, degree, hasher, parents, layer_in) ==
    LET chunk(c) == [j \in 1..degree |-> layer_in[parents[(c - 1) * degree + j] + 1]]
        digests == [c \in 1..k |-> TruncateHash(Sha256Digest(chunk(c)))]
    IN  TruncateHash(Sha256Finish(Sha256Input(hasher, digests)))

\* --------------------------------------------------- one node of a layer

\* mask_layer's closure: the value written to node `node_index`
MaskNodeLocalIndex(cfg, window_index, replica_id, node_index) ==
    TruncateHash(Sha256Digest(HashPrefix(1, node_index) \o <<replica_id>>))
MaskNode(cfg, window_index, replica_id, node_index) ==
    LET prefix == HashPrefix(1, NodeAbsoluteIndex(cfg, window_index, node_index))
    IN  TruncateHash(Sha256Digest(prefix \o <<replica_id>>))

\* expander_layer's closure: the value written to node `node_index`
ExpanderNode(cfg, window_index, replica_id, layer_index, layer_in, node_index) ==
    LET parents == ExpandedParents(cfg, node_index)
        hasher == PrimedHasher(cfg, window_index, replica_id, layer_index, node_index)
    IN  BatchHash(cfg.k, cfg.degree_expander, hasher, parents, layer_in)

\* the parent values fed to the hasher: graph.parents(..).tuples() yields whole
\* pairs only, each pair fed as (parent_a, parent_b)
ButterflyParentValues(cfg, layer_index, layer_in, node_index) ==
    LET parents == ButterflyParents(cfg, node_index, layer_index)
        npairs == Len(parents) \div 2
    IN  [j \in 1..(2 * npairs) |-> layer_in[parents[j] + 1]]

\* the untruncated digest of a butterfly node (hasher.finish())
ButterflyDigest(cfg, window_index, replica_id, layer_index, layer_in, node_index) ==
    Sha256Finish(
        Sha256Input(
            PrimedHasher(cfg, window_index, replica_id, layer_index, node_index),
            ButterflyParentValues(cfg, layer_index, layer_in, node_index)))

\* butterfly_layer's closure: the value written to node `node_index`
ButterflyNodeUntruncated(cfg, window_index, replica_id, layer_index, layer_in, node_index) ==
    ButterflyDigest(cfg, window_index, replica_id, layer_index, layer_in, node_index)
ButterflyNode(cfg, window_index, replica_id, layer_index, layer_in, node_index) ==
    TruncateHash(
        ButterflyDigest(cfg, window_index, replica_id, layer_index, layer_in, node_index))

\* butterfly_encode_decode_layer: the key of node `node_index`, truncated
EncodeKey(cfg, window_index, replica_id, layer_index, layer_in, node_index) ==
    TruncateHash(
        ButterflyDigest(cfg, window_index, replica_id, layer_index, layer_in, node_index))

\* ------------------------------------------------- the ensure! preconditions

\* mask_layer: ensure!(layer_out.len() == config.window_size())
MaskPre(cfg, layer_out) == ByteLen(layer_out) = WindowSize(cfg)

\* expander_layer, butterfly_layer: the two length checks
LengthPreAtLeast(cfg, layer_in, layer_out) ==
    /\ ByteLen(layer_in) = ByteLen(layer_out)
    /\ ByteLen(layer_out) >= WindowSize(cfg)
LengthPre(cfg, layer_in, layer_out) ==
    /\ ByteLen(layer_in) = ByteLen(layer_out)
    /\ ByteLen(layer_out) = WindowSize(cfg)

\* expander_layer: layer_index > 1 && layer_index <= num_expander_layers
ExpanderIndexPreFromOne(cfg, layer_index) ==
    layer_index >= 1 /\ layer_index <= cfg.num_expander_layers
ExpanderIndexPre(cfg, layer_index) ==
    layer_index > 1 /\ layer_index <= cfg.num_expander_layers

\* butterfly_layer: num_expander_layers < layer_index < num_layers
ButterflyIndexPreInclusive(cfg, layer_index) ==
    /\ layer_index >= cfg.num_expander_layers
    /\ layer_index < cfg.num_expander_layers + cfg.num_butterfly_layers
ButterflyIndexPre(cfg, layer_index) ==
    /\ layer_index > cfg.num_expander_layers
    /\ layer_index < cfg.num_expander_layers + cfg.num_butterfly_layers

\* butterfly_encode_decode_layer: the two length checks
EncodeLengthPre(cfg, layer_in, data) ==
    /\ ByteLen(layer_in) = ByteLen(data)
    /\ ByteLen(layer_in) = WindowSize(cfg)

\* butterfly_encode_decode_layer: layer_index == num_layers
EncodeIndexPreAtLeast(cfg, layer_index) ==
    layer_index >= cfg.num_expander_layers + cfg.num_butterfly_layers
EncodeIndexPre(cfg, layer_index) ==
    layer_index = cfg.num_expander_layers + cfg.num_butterfly_layers

ExpanderPre(cfg, layer_index, layer_in, layer_out) ==
    LengthPre(cfg, layer_in, layer_out) /\ ExpanderIndexPre(cfg, layer_index)

ButterflyPre(cfg, layer_index, layer_in, layer_out) ==
    LengthPre(cfg, layer_in, layer_out) /\ ButterflyIndexPre(cfg, layer_index)

EncodePre(cfg, layer_index, layer_in, data) ==
    EncodeLengthPre(cfg, layer_in, data) /\ EncodeIndexPre(cfg, layer_index)

\* ------------------------------------------- the layer functions, as calls

\* mask_layer(config, window_index, replica_id, layer_out)
MaskLayer(cfg, window_index, replica_id, layer_out) ==
    IF ~MaskPre(cfg, layer_out) THEN [ok |-> FALSE, out |-> layer_out]
    ELSE [ok |-> TRUE,
          out |-> NodesOf([i \in 1..Len(layer_out) |->
                      MaskNode(cfg, window_index, replica_id, i - 1)])]

\* expander_layer(config, window_index, replica_id, layer_index, layer_in, layer_out)
ExpanderLayer(cfg, window_index, replica_id, layer_index, layer_in, layer_out) ==
    IF ~ExpanderPre(cfg, layer_index, layer_in, layer_out)
    THEN [ok |-> FALSE, out |-> layer_out]
    ELSE [ok |-> TRUE,
          out |-> NodesOf([i \in 1..Len(layer_out) |->
                      ExpanderNode(cfg, window_index, replica_id, layer_index,
                                   layer_in, i - 1)])]

\* butterfly_layer(config, window_index, replica_id, layer_index, layer_in, layer_out)
ButterflyLayerClearsFirst(cfg, window_index, replica_id, layer_index, layer_in, layer_out) ==
    IF ~ButterflyPre(cfg, layer_index, layer_in, layer_out)
    THEN [ok |-> FALSE, out |-> Zeros(Len(layer_out))]
    ELSE [ok |-> TRUE,
          out |-> NodesOf([i \in 1..Len(layer_out) |->
                      ButterflyNode(cfg, window_index, replica_id, layer_index,
                                    layer_in, i - 1)])]
ButterflyLayer(cfg, window_index, replica_id, layer_index, layer_in, layer_out) ==
    IF ~ButterflyPre(cfg, layer_index, layer_in, layer_out)
    THEN [ok |-> FALSE, out |-> layer_out]
    ELSE [ok |-> TRUE,
          out |-> NodesOf([i \in 1..Len(layer_out) |->
                      ButterflyNode(cfg, window_index, replica_id, layer_index,
                                    layer_in, i - 1)])]

\* op(key, data_node_fr): encode::encode or encode::decode
FieldOpEncodes(op, key, value) == FieldEncode(key, value)
FieldOp(op, key, value) ==
    IF op = "encode" THEN FieldEncode(key, value) ELSE FieldDecode(key, value)

\* the sequential loop of butterfly_encode_decode_layer from node `i` on: `at` is
\* the node whose conversion failed (Len(data) when none did)
RECURSIVE EncodeDecodeLoopSkipsInvalid(_, _, _, _, _, _, _, _)
EncodeDecodeLoopSkipsInvalid(cfg, window_index, replica_id, layer_index, layer_in, data, op, i) ==
    IF i >= Len(data)
    THEN [ok |-> \A p \in DOMAIN data : IsFr(data[p]), out |-> data, at |-> Len(data)]
    ELSE LET key == EncodeKey(cfg, window_index, replica_id, layer_index, layer_in, i)
         IN  EncodeDecodeLoopSkipsInvalid(cfg, window_index, replica_id, layer_index, layer_in,
                 IF IsFr(data[i + 1])
                 THEN [data EXCEPT ![i + 1] = FieldOp(op, key, data[i + 1])]
                 ELSE data, op, i + 1)
RECURSIVE EncodeDecodeLoop(_, _, _, _, _, _, _, _)
EncodeDecodeLoop(cfg, window_index, replica_id, layer_index, layer_in, data, op, i) ==
    IF i >= Len(data) THEN [ok |-> TRUE, out |-> data, at |-> Len(data)]
    ELSE LET key == EncodeKey(cfg, window_index, replica_id, layer_index, layer_in, i)
         IN  IF ~IsFr(key) \/ ~IsFr(data[i + 1])
             THEN [ok |-> FALSE, out |-> data, at |-> i]
             ELSE EncodeDecodeLoop(cfg, window_index, replica_id, layer_index, layer_in,
                      [data EXCEPT ![i + 1] = FieldOp(op, key, data[i + 1])], op, i + 1)

\* butterfly_encode_decode_layer(config, .., layer_index, layer_in, data, op)
ButterflyEncodeDecodeLayerKeyFromData(cfg, window_index, replica_id, layer_index, layer_in, data, op) ==
    IF ~EncodePre(cfg, layer_index, layer_in, data)
    THEN [ok |-> FALSE, out |-> data, at |-> 0]
    ELSE EncodeDecodeLoop(cfg, window_index, replica_id, layer_index, data, data, op, 0)
ButterflyEncodeDecodeLayer(cfg, window_index, replica_id, layer_index, layer_in, data, op) ==
    IF ~EncodePre(cfg, layer_index, layer_in, data)
    THEN [ok |-> FALSE, out |-> data, at |-> 0]
    ELSE EncodeDecodeLoop(cfg, window_index, replica_id, layer_index, layer_in, data, op, 0)

\* butterfly_encode_layer
ButterflyEncodeLayer(cfg, window_index, replica_id, layer_index, layer_in, data) ==
    ButterflyEncodeDecodeLayer(cfg, window_index, replica_id, layer_index, layer_in,
                               data, "encode")

\* butterfly_decode_layer
ButterflyDecodeLayerEncodes(cfg, window_index, replica_id, layer_index, layer_in, data) ==
    ButterflyEncodeDecodeLayer(cfg, window_index, replica_id, layer_index, layer_in,
                               data, "encode")
ButterflyDecodeLayer(cfg, window_index, replica_id, layer_index, layer_in, data) ==
    ButterflyEncodeDecodeLayer(cfg, window_index, replica_id, layer_index, layer_in,
                               data, "decode")

\* ------------------------------------------------------------------ trees

\* the root the tree builder commits to for a buffer of leaves
MerkleRoot(leaves) == Sha256Input(101, leaves)

\* try_from_bytes(node).unwrap() over every node: the builder panics on a node
\* that is no field element
LeavesValid(leaves) == \A i \in 1..Len(leaves) : IsFr(leaves[i])

\* tree_from_slice / lc_tree_from_slice(data, config), when the store accepts it
TreeFromSlice(leaves, store_config) ==
    [root |-> MerkleRoot(leaves), store |-> store_config, leafs |-> Len(leaves)]

NoTree == [root |-> -1, store |-> 0, leafs |-> 0]

\* --------------------------- encode_with_trees and decode, as whole calls

\* iterations of `for layer_index in 2..=num_expander_layers`
NumExpanderCalls(cfg) ==
    IF cfg.num_expander_layers >= 2 THEN cfg.num_expander_layers - 1 ELSE 0

\* iterations of `for layer_index in (1 + num_expander_layers)..num_layers`
NumButterflyCalls(cfg) ==
    IF NumLayers(cfg) > 1 + cfg.num_expander_layers
    THEN NumLayers(cfg) - (1 + cfg.num_expander_layers) ELSE 0

\* layers computed before the encoding layer: the mask and the two loops
NumInner(cfg) == 1 + NumExpanderCalls(cfg) + NumButterflyCalls(cfg)

\* the layer_index the p-th computed layer is called with
LayerIndexAt(cfg, p) ==
    IF p = 1 THEN 1
    ELSE IF p <= 1 + NumExpanderCalls(cfg) THEN p
    ELSE (1 + cfg.num_expander_layers) + (p - 2 - NumExpanderCalls(cfg))

\* previous_layer and current_layer after the p-th computed layer and its swap
RECURSIVE BuffersAfter(_, _, _, _)
BuffersAfter(cfg, window_index, replica_id, p) ==
    IF p = 1
    THEN LET m == MaskLayer(cfg, window_index, replica_id, Zeros(cfg.num_nodes_window))
         IN  <<[ok |-> m.ok, prev |-> m.out, cur |-> Zeros(cfg.num_nodes_window)]>>
    ELSE LET s == BuffersAfter(cfg, window_index, replica_id, p - 1)
             b == s[p - 1]
             r == IF p <= 1 + NumExpanderCalls(cfg)
                  THEN ExpanderLayer(cfg, window_index, replica_id,
                                     LayerIndexAt(cfg, p), b.prev, b.cur)
                  ELSE ButterflyLayer(cfg, window_index, replica_id,
                                      LayerIndexAt(cfg, p), b.prev, b.cur)
         IN  Append(s, [ok |-> b.ok /\ r.ok, prev |-> r.out, cur |-> b.prev])

\* the complete outputs of the first p layers computed, in order: every node of
\* each, from the complete output of the layer computed before it
RECURSIVE LayerOutputs(_, _, _, _)
LayerOutputs(cfg, window_index, replica_id, p) ==
    IF p <= 0 THEN <<>>
    ELSE IF p = 1
    THEN <<NodesOf([i \in 1..cfg.num_nodes_window |->
                      MaskNode(cfg, window_index, replica_id, i - 1)])>>
    ELSE LET s == LayerOutputs(cfg, window_index, replica_id, p - 1)
         IN  IF p <= 1 + NumExpanderCalls(cfg)
             THEN Append(s, NodesOf([i \in 1..cfg.num_nodes_window |->
                             ExpanderNode(cfg, window_index, replica_id,
                                          LayerIndexAt(cfg, p), s[p - 1], i - 1)]))
             ELSE Append(s, NodesOf([i \in 1..cfg.num_nodes_window |->
                             ButterflyNode(cfg, window_index, replica_id,
                                           LayerIndexAt(cfg, p), s[p - 1], i - 1)]))

\* the complete output of the p-th layer computed
LayerOutput(cfg, window_index, replica_id, p) ==
    LayerOutputs(cfg, window_index, replica_id, p)[p]

\* the buffers after each of the layers computed before the encoding layer
InnerLayers(cfg, window_index, replica_id) ==
    BuffersAfter(cfg, window_index, replica_id, NumInner(cfg))

\* the layer the encoding layer reads: previous_layer after the loops
LastInnerLayer(cfg, window_index, replica_id) ==
    InnerLayers(cfg, window_index, replica_id)[NumInner(cfg)].prev

\* encode_with_trees(config, store_configs, window_index, replica_id, data), the
\* store rejecting tree number `fail_at` (0: none).  status is "ok", "err" (an Err
\* is returned) or "panic"; data is the caller's buffer afterwards
EncodeWithTrees(cfg, store_configs, window_index, replica_id, data, fail_at) ==
    LET n == NumInner(cfg)
        layers == InnerLayers(cfg, window_index, replica_id)
        buf(p) == layers[p]
        stop == {p \in 1..n : ~buf(p).ok \/ ~LeavesValid(buf(p).prev) \/ fail_at = p}
        first == CHOOSE p \in stop : \A q \in stop : p <= q
        e == ButterflyEncodeLayer(cfg, window_index, replica_id, NumLayers(cfg),
                                  buf(n).prev, data)
        none(st, d) == [status |-> st, data |-> d, trees |-> <<>>, replica_tree |-> NoTree]
    IN  IF Len(store_configs) # NumLayers(cfg) THEN none("panic", data)
        ELSE IF stop # {}
        THEN IF buf(first).ok /\ ~LeavesValid(buf(first).prev)
             THEN none("panic", data) ELSE none("err", data)
        ELSE IF ~e.ok THEN none("err", e.out)
        ELSE IF n + 1 > Len(store_configs) THEN none("panic", e.out)
        ELSE IF ~LeavesValid(e.out) THEN none("panic", e.out)
        ELSE IF fail_at = n + 1 THEN none("err", e.out)
        ELSE [status |-> "ok", data |-> e.out,
              trees |-> [p \in 1..n |-> TreeFromSlice(buf(p).prev, store_configs[p])],
              replica_tree |-> TreeFromSlice(e.out, store_configs[n + 1])]

\* decode(config, window_index, replica_id, encoded_data)
Decode(cfg, window_index, replica_id, encoded_data) ==
    LET b == InnerLayers(cfg, window_index, replica_id)[NumInner(cfg)]
        d == ButterflyDecodeLayer(cfg, window_index, replica_id, NumLayers(cfg),
                                  b.prev, encoded_data)
    IN  IF ~b.ok THEN [status |-> "err", data |-> encoded_data]
        ELSE [status |-> IF d.ok THEN "ok" ELSE "err", data |-> d.out]

\* =========================================================================
\* State
\* =========================================================================

VARIABLES
    \* inputs of the call under way
    config,          \* &Config
    replica_id,      \* the replica id, a field element
    window_index,    \* u32
    store_in,        \* the store_configs argument as the caller passed it
    orig_data,       \* the caller's data before encode_with_trees
    \* one window: encode_with_trees, then decode
    mode,            \* "encode": in encode_with_trees; "decode": in decode
    pc,              \* the place in the function's body
    status,          \* "none" while running; "ok", "err", "panic" once returned
    layer_index,     \* the loop variable layer_index
    previous_layer,  \* the local buffer previous_layer (<<>>: not allocated or dropped)
    current_layer,   \* the local buffer current_layer (<<>>: not allocated or dropped)
    pending,         \* nodes whose parallel task of the running layer has not run
    store_configs,   \* the local list store_configs, heads removed
    trees,           \* the local vector trees
    replica_tree,    \* the replica tree returned
    data,            \* the caller's buffer
    fail_at,         \* which tree build the store rejected (0: none)
    out_of_order,    \* some parallel task ran before a task of a lower node
    layer_log,       \* the layer functions this run entered, with their layer_index
    \* a batch: encode_with_trees_all
    inps,            \* Vec<Window>: (store_configs, window_index, data) per window
    orig_inps,       \* inps as the caller passed it
    use_gpu_nse,     \* settings::SETTINGS.use_gpu_nse
    tree_is_gpu,     \* TypeId::of::<Tree>() == TypeId::of::<GPUTree>()
    lock_held,       \* the SETTINGS mutex is locked by this call
    flag_reads,      \* how often this call read use_gpu_nse
    bpc,             \* the place in encode_with_trees_all
    gpu_attempted,   \* encode_with_trees_all_gpu was called
    gpu_failed,      \* it returned Err
    gpu_layers,      \* per window, what seal_on_gpu yielded
    gpu_next,        \* the window the second map of the GPU path is at
    cpu_inps,        \* inps as encode_with_trees_all_cpu received it
    cpu_todo,        \* windows whose task has not run
    cpu_order,       \* the windows in the order their tasks ran
    slots,           \* per window, its task's result
    results,         \* the Vec returned
    batch_status,    \* "none"; "ok", "err", "panic" once returned
    \* a single call of one layer function
    call             \* the last call: its arguments and what it returned

inputVars == <<config, replica_id, window_index, store_in, orig_data>>
winVars == <<mode, pc, status, layer_index, previous_layer, current_layer, pending,
             store_configs, trees, replica_tree, data, fail_at, out_of_order,
             layer_log>>
batchVars == <<inps, orig_inps, use_gpu_nse, tree_is_gpu, lock_held, flag_reads, bpc,
               gpu_attempted, gpu_failed, gpu_layers, gpu_next, cpu_inps, cpu_todo,
               cpu_order, slots, results, batch_status>>
vars == <<inputVars, winVars, batchVars, call>>

\* ------------------------------------------------------------- input sets

\* the replica ids a caller passes
ReplicaIds == {3, 5}

\* node values a caller's data is drawn from: field elements (the least, the
\* greatest) and values that are none (the least, the greatest)
DataValues == {0, 1, Modulus - 1, Modulus, NodeMax}

WindowIndexes == 0..MaxWindowIndex

DataBuffers(cfg) == [1..cfg.num_nodes_window -> DataValues]

\* split_config(store_config, n): n store configs, here named 1..n
SplitConfig(n) == [i \in 1..n |-> i]

Nodes(cfg) == 0..(cfg.num_nodes_window - 1)

NoCall == [fn |-> "none"]

\* the variables of the batch, idle
BatchIdle ==
    /\ inps = <<>> /\ orig_inps = <<>> /\ use_gpu_nse = FALSE /\ tree_is_gpu = FALSE
    /\ lock_held = FALSE /\ flag_reads = 0 /\ bpc = "idle"
    /\ gpu_attempted = FALSE /\ gpu_failed = FALSE /\ gpu_layers = <<>> /\ gpu_next = 0
    /\ cpu_inps = <<>> /\ cpu_todo = {} /\ cpu_order = <<>> /\ slots = <<>>
    /\ results = <<>> /\ batch_status = "none"

\* the variables of the single window, idle
WinIdle ==
    /\ mode = "encode" /\ pc = "idle" /\ status = "none" /\ layer_index = 0
    /\ previous_layer = <<>> /\ current_layer = <<>> /\ pending = {}
    /\ trees = <<>> /\ replica_tree = NoTree /\ fail_at = 0
    /\ out_of_order = FALSE /\ layer_log = <<>>

\* =========================================================================
\* One window: encode_with_trees, then decode on its result
\* =========================================================================

Init ==
    /\ config \in Configs
    /\ replica_id \in ReplicaIds
    /\ window_index \in WindowIndexes
    /\ store_in \in {SplitConfig(NumLayers(config)), SplitConfig(NumLayers(config) + 1)}
    /\ orig_data \in DataBuffers(config)
    /\ data = orig_data
    /\ store_configs = store_in
    /\ WinIdle
    /\ BatchIdle
    /\ call = NoCall

\* a layer function is called with layer index `lidx`
LogCall(fn, lidx) ==
    layer_log' = Append(layer_log, [fn |-> fn, layer_index |-> lidx])

\* the function returns: its locals are dropped
Return(st) ==
    /\ pc' = "returned"
    /\ status' = st
    /\ previous_layer' = <<>>
    /\ current_layer' = <<>>
    /\ pending' = {}

\* the parallel task of node i in mask_layer: writes its own chunk of layer_out
MaskTaskWriteWide(cfg, widx, rid, layer_out, i) ==
    [layer_out EXCEPT ![i + 1] = MaskNode(cfg, widx, rid, i),
                      ![((i + 1) % Len(layer_out)) + 1] = MaskNode(cfg, widx, rid, i)]
MaskTaskWrite(cfg, widx, rid, layer_out, i) ==
    [layer_out EXCEPT ![i + 1] = MaskNode(cfg, widx, rid, i)]

\* the parallel task of node i in expander_layer: reads layer_in, writes its own
\* chunk of layer_out
ExpanderTaskWriteInPlace(cfg, widx, rid, lidx, layer_in, layer_out, i) ==
    [layer_out EXCEPT ![i + 1] = ExpanderNode(cfg, widx, rid, lidx, layer_out, i)]
ExpanderTaskWrite(cfg, widx, rid, lidx, layer_in, layer_out, i) ==
    [layer_out EXCEPT ![i + 1] = ExpanderNode(cfg, widx, rid, lidx, layer_in, i)]

\* the parallel task of node i in butterfly_layer
ButterflyTaskWrite(cfg, widx, rid, lidx, layer_in, layer_out, i) ==
    [layer_out EXCEPT ![i + 1] = ButterflyNode(cfg, widx, rid, lidx, layer_in, i)]

\* encode_with_trees: assert_eq!, the two vec![0u8; window_size], and the call of
\* mask_layer up to the start of its parallel loop
EncodeStart ==
    /\ pc = "idle" /\ mode = "encode"
    /\ IF Len(store_configs) # NumLayers(config)
       THEN Return("panic") /\ UNCHANGED <<layer_index, layer_log>>
       ELSE IF ~MaskPre(config, Zeros(config.num_nodes_window))
       THEN Return("err") /\ LogCall("mask_layer", 1) /\ UNCHANGED layer_index
       ELSE /\ previous_layer' = Zeros(config.num_nodes_window)
            /\ current_layer' = Zeros(config.num_nodes_window)
            /\ pending' = Nodes(config)
            /\ pc' = "mask"
            /\ layer_index' = 1
            /\ LogCall("mask_layer", 1)
            /\ UNCHANGED status
    /\ UNCHANGED <<mode, store_configs, trees, replica_tree, data, fail_at>>
    /\ UNCHANGED <<inputVars, batchVars, call, out_of_order>>

\* mask_layer: one task of the par_chunks_mut loop
MaskTask ==
    /\ pc = "mask"
    /\ \E i \in pending :
        /\ previous_layer' = MaskTaskWrite(config, window_index, replica_id,
                                           previous_layer, i)
        /\ pending' = pending \ {i}
        /\ out_of_order' = (out_of_order \/ \E j \in pending : j < i)
    /\ UNCHANGED <<mode, pc, status, layer_index, current_layer, store_configs, trees,
                   replica_tree, data, fail_at>>
    /\ UNCHANGED <<inputVars, batchVars, call, layer_log>>

\* store_configs.remove(0), tree_from_slice(layer, config)?, trees.push(tree):
\* `then` is what follows when the tree was built
BuildTreeNoPush(layer, then) ==
    IF store_configs = <<>> \/ ~LeavesValid(layer)
    THEN Return("panic") /\ UNCHANGED <<layer_index, store_configs, trees, fail_at>>
    ELSE \E stored \in BOOLEAN :
            IF stored
            THEN /\ store_configs' = Tail(store_configs)
                 /\ UNCHANGED <<status, fail_at, trees>>
                 /\ then
            ELSE /\ Return("err")
                 /\ store_configs' = Tail(store_configs)
                 /\ fail_at' = Len(trees) + 1
                 /\ UNCHANGED <<layer_index, trees>>
BuildTree(layer, then) ==
    IF store_configs = <<>> \/ ~LeavesValid(layer)
    THEN Return("panic") /\ UNCHANGED <<layer_index, store_configs, trees, fail_at>>
    ELSE \E stored \in BOOLEAN :
            IF stored
            THEN /\ store_configs' = Tail(store_configs)
                 /\ trees' = Append(trees, TreeFromSlice(layer, Head(store_configs)))
                 /\ UNCHANGED <<status, fail_at>>
                 /\ then
            ELSE /\ Return("err")
                 /\ store_configs' = Tail(store_configs)
                 /\ fail_at' = Len(trees) + 1
                 /\ UNCHANGED <<layer_index, trees>>

\* encode_with_trees: mask_layer has returned; the mask tree
EncMaskTree ==
    /\ pc = "mask" /\ pending = {} /\ mode = "encode"
    /\ BuildTree(previous_layer,
                 /\ pc' = "exp_head"
                 /\ layer_index' = 2
                 /\ UNCHANGED <<previous_layer, current_layer, pending>>)
    /\ UNCHANGED <<mode, replica_tree, data>>
    /\ UNCHANGED <<inputVars, batchVars, call, out_of_order, layer_log>>

\* the head of `for layer_index in 2..=num_expander_layers`: an iteration calls
\* expander_layer, up to the start of its parallel loop
ExpanderCall ==
    /\ pc = "exp_head" /\ layer_index <= config.num_expander_layers
    /\ IF ExpanderPre(config, layer_index, previous_layer, current_layer)
       THEN /\ pc' = "exp"
            /\ pending' = Nodes(config)
            /\ UNCHANGED <<status, previous_layer, current_layer>>
       ELSE Return("err")
    /\ LogCall("expander_layer", layer_index)
    /\ UNCHANGED <<mode, layer_index, store_configs, trees, replica_tree, data, fail_at>>
    /\ UNCHANGED <<inputVars, batchVars, call, out_of_order>>

\* expander_layer: one task of the par_chunks_mut loop
ExpanderTask ==
    /\ pc = "exp"
    /\ \E i \in pending :
        /\ current_layer' = ExpanderTaskWrite(config, window_index, replica_id,
                                layer_index, previous_layer, current_layer, i)
        /\ pending' = pending \ {i}
        /\ out_of_order' = (out_of_order \/ \E j \in pending : j < i)
    /\ UNCHANGED <<mode, pc, status, layer_index, previous_layer, store_configs, trees,
                   replica_tree, data, fail_at>>
    /\ UNCHANGED <<inputVars, batchVars, call, layer_log>>

\* std::mem::swap(&mut previous_layer, &mut current_layer) and the next iteration
SwapAndNextNoSwap(head) ==
    /\ layer_index' = layer_index + 1
    /\ pc' = head
    /\ UNCHANGED <<previous_layer, current_layer, pending>>
SwapAndNext(head) ==
    /\ previous_layer' = current_layer
    /\ current_layer' = previous_layer
    /\ layer_index' = layer_index + 1
    /\ pc' = head
    /\ UNCHANGED pending

\* encode_with_trees: expander_layer has returned; the tree, then the swap
EncExpanderTree ==
    /\ pc = "exp" /\ pending = {} /\ mode = "encode"
    /\ BuildTree(current_layer, SwapAndNext("exp_head"))
    /\ UNCHANGED <<mode, replica_tree, data>>
    /\ UNCHANGED <<inputVars, batchVars, call, out_of_order, layer_log>>

\* the expander loop ends; the butterfly loop starts at 1 + num_expander_layers
ExpanderLoopExit ==
    /\ pc = "exp_head" /\ layer_index > config.num_expander_layers
    /\ pc' = "bfly_head"
    /\ layer_index' = 1 + config.num_expander_layers
    /\ UNCHANGED <<mode, status, previous_layer, current_layer, pending, store_configs,
                   trees, replica_tree, data, fail_at>>
    /\ UNCHANGED <<inputVars, batchVars, call, out_of_order, layer_log>>

\* the head of `for layer_index in (1 + num_expander_layers)..num_layers`: an
\* iteration calls butterfly_layer, up to the start of its parallel loop
ButterflyCall ==
    /\ pc = "bfly_head" /\ layer_index < NumLayers(config)
    /\ IF ButterflyPre(config, layer_index, previous_layer, current_layer)
       THEN /\ pc' = "bfly"
            /\ pending' = Nodes(config)
            /\ UNCHANGED <<status, previous_layer, current_layer>>
       ELSE Return("err")
    /\ LogCall("butterfly_layer", layer_index)
    /\ UNCHANGED <<mode, layer_index, store_configs, trees, replica_tree, data, fail_at>>
    /\ UNCHANGED <<inputVars, batchVars, call, out_of_order>>

\* butterfly_layer: one task of the par_chunks_mut loop
ButterflyTask ==
    /\ pc = "bfly"
    /\ \E i \in pending :
        /\ current_layer' = ButterflyTaskWrite(config, window_index, replica_id,
                                layer_index, previous_layer, current_layer, i)
        /\ pending' = pending \ {i}
        /\ out_of_order' = (out_of_order \/ \E j \in pending : j < i)
    /\ UNCHANGED <<mode, pc, status, layer_index, previous_layer, store_configs, trees,
                   replica_tree, data, fail_at>>
    /\ UNCHANGED <<inputVars, batchVars, call, layer_log>>

\* encode_with_trees: butterfly_layer has returned; the tree, then the swap
EncButterflyTreeOfPrevious ==
    /\ pc = "bfly" /\ pending = {} /\ mode = "encode"
    /\ BuildTree(previous_layer, SwapAndNext("bfly_head"))
    /\ UNCHANGED <<mode, replica_tree, data>>
    /\ UNCHANGED <<inputVars, batchVars, call, out_of_order, layer_log>>
EncButterflyTree ==
    /\ pc = "bfly" /\ pending = {} /\ mode = "encode"
    /\ BuildTree(current_layer, SwapAndNext("bfly_head"))
    /\ UNCHANGED <<mode, replica_tree, data>>
    /\ UNCHANGED <<inputVars, batchVars, call, out_of_order, layer_log>>

\* the butterfly loop ends; encode_with_trees drops current_layer
ButterflyLoopExit ==
    /\ pc = "bfly_head" /\ layer_index >= NumLayers(config)
    /\ pc' = "enc_layer"
    /\ layer_index' = NumLayers(config)
    /\ current_layer' = IF mode = "encode" THEN <<>> ELSE current_layer
    /\ UNCHANGED <<mode, status, previous_layer, pending, store_configs, trees,
                   replica_tree, data, fail_at>>
    /\ UNCHANGED <<inputVars, batchVars, call, out_of_order, layer_log>>

\* encode_with_trees: butterfly_encode_layer on the caller's data, then
\* drop(previous_layer)
EncodeLayer ==
    /\ pc = "enc_layer" /\ mode = "encode"
    /\ LET r == ButterflyEncodeLayer(config, window_index, replica_id, layer_index,
                                     previous_layer, data)
       IN  /\ data' = r.out
           /\ IF r.ok
              THEN /\ pc' = "replica"
                   /\ previous_layer' = <<>>
                   /\ UNCHANGED <<status, current_layer, pending>>
              ELSE Return("err")
    /\ LogCall("butterfly_encode_layer", layer_index)
    /\ UNCHANGED <<mode, layer_index, store_configs, trees, replica_tree, fail_at>>
    /\ UNCHANGED <<inputVars, batchVars, call, out_of_order>>

\* encode_with_trees: store_configs.remove(0), lc_tree_from_slice(data, ..)?, Ok(..)
ReplicaTree ==
    /\ pc = "replica"
    /\ IF store_configs = <<>> \/ ~LeavesValid(data)
       THEN Return("panic") /\ UNCHANGED <<store_configs, replica_tree, fail_at>>
       ELSE \E stored \in BOOLEAN :
            /\ store_configs' = Tail(store_configs)
            /\ IF stored
               THEN /\ replica_tree' = TreeFromSlice(data, Head(store_configs))
                    /\ Return("ok")
                    /\ UNCHANGED fail_at
               ELSE /\ Return("err")
                    /\ fail_at' = Len(trees) + 1
                    /\ UNCHANGED replica_tree
    /\ UNCHANGED <<mode, layer_index, trees, data>>
    /\ UNCHANGED <<inputVars, batchVars, call, out_of_order, layer_log>>

\* decode on the replica, same config, window_index and replica_id: the two
\* vec![0u8; window_size] and the call of mask_layer
DecodeStart ==
    /\ pc = "returned" /\ mode = "encode" /\ status = "ok"
    /\ mode' = "decode"
    /\ IF ~MaskPre(config, Zeros(config.num_nodes_window))
       THEN Return("err") /\ UNCHANGED layer_index
       ELSE /\ previous_layer' = Zeros(config.num_nodes_window)
            /\ current_layer' = Zeros(config.num_nodes_window)
            /\ pending' = Nodes(config)
            /\ pc' = "mask"
            /\ layer_index' = 1
            /\ status' = "none"
    /\ layer_log' = <<[fn |-> "mask_layer", layer_index |-> 1]>>
    /\ UNCHANGED <<store_configs, trees, replica_tree, data, fail_at>>
    /\ UNCHANGED <<inputVars, batchVars, call, out_of_order>>

\* decode: mask_layer has returned
DecMaskReturn ==
    /\ pc = "mask" /\ pending = {} /\ mode = "decode"
    /\ pc' = "exp_head"
    /\ layer_index' = 2
    /\ UNCHANGED <<mode, status, previous_layer, current_layer, pending, store_configs,
                   trees, replica_tree, data, fail_at>>
    /\ UNCHANGED <<inputVars, batchVars, call, out_of_order, layer_log>>

\* decode: expander_layer has returned; the swap
DecExpanderSwap ==
    /\ pc = "exp" /\ pending = {} /\ mode = "decode"
    /\ SwapAndNext("exp_head")
    /\ UNCHANGED <<mode, status, store_configs, trees, replica_tree, data, fail_at>>
    /\ UNCHANGED <<inputVars, batchVars, call, out_of_order, layer_log>>

\* decode: butterfly_layer has returned; the swap
DecButterflySwap ==
    /\ pc = "bfly" /\ pending = {} /\ mode = "decode"
    /\ SwapAndNext("bfly_head")
    /\ UNCHANGED <<mode, status, store_configs, trees, replica_tree, data, fail_at>>
    /\ UNCHANGED <<inputVars, batchVars, call, out_of_order, layer_log>>

\* decode: butterfly_decode_layer on the caller's buffer, then Ok(())
DecodeLayer ==
    /\ pc = "enc_layer" /\ mode = "decode"
    /\ LET r == ButterflyDecodeLayer(config, window_index, replica_id, layer_index,
                                     previous_layer, data)
       IN  /\ data' = r.out
           /\ Return(IF r.ok THEN "ok" ELSE "err")
    /\ LogCall("butterfly_decode_layer", layer_index)
    /\ UNCHANGED <<mode, layer_index, store_configs, trees, replica_tree, fail_at>>
    /\ UNCHANGED <<inputVars, batchVars, call, out_of_order>>

Next ==
    \/ EncodeStart \/ MaskTask \/ EncMaskTree
    \/ ExpanderCall \/ ExpanderTask \/ EncExpanderTree \/ ExpanderLoopExit
    \/ ButterflyCall \/ ButterflyTask \/ EncButterflyTree \/ ButterflyLoopExit
    \/ EncodeLayer \/ ReplicaTree
    \/ DecodeStart \/ DecMaskReturn \/ DecExpanderSwap \/ DecButterflySwap
    \/ DecodeLayer

Spec == Init /\ [][Next]_vars

\* =========================================================================
\* Properties of one window (Spec)
\* =========================================================================

EncodeReturned == mode = "encode" /\ pc = "returned"
DecodeReturned == mode = "decode" /\ pc = "returned"

\* C1: decode, run on the buffer a successful encode_with_trees left, with the
\* same config, window_index and replica_id, succeeds and leaves the buffer equal
\* to the original data
C1_RoundTrip ==
    DecodeReturned => (status = "ok" /\ data = orig_data)

\* a round trip whose replica differed from the data
C1_Witness ==
    /\ DecodeReturned /\ status = "ok" /\ data = orig_data
    /\ LeavesValid(orig_data)
    /\ replica_tree.root # MerkleRoot(orig_data)

\* C3: when encode_with_trees returns an error, the caller's buffer does not
\* hold some nodes replaced by encoded values beside nodes still holding the
\* original data
C3_NoPartialReplica ==
    (EncodeReturned /\ status = "err") =>
        ~(/\ \E i \in DOMAIN data : data[i] # orig_data[i]
          /\ \E j \in DOMAIN data : data[j] = orig_data[j] /\ ~IsFr(data[j]))

\* C4: a successful encode_with_trees returns num_expander_layers +
\* num_butterfly_layers - 1 intermediate trees and a replica tree that is none
\* of them
C4_TreeCount ==
    (EncodeReturned /\ status = "ok") =>
        /\ Len(store_in) = NumLayers(config)
        /\ Len(trees) = config.num_expander_layers + config.num_butterfly_layers - 1
        /\ replica_tree # NoTree
        /\ \A p \in DOMAIN trees : trees[p].store # replica_tree.store

\* a successful encode with several intermediate trees
C4_Witness ==
    /\ EncodeReturned /\ status = "ok"
    /\ Len(trees) = MaxExpanderLayers + MaxButterflyLayers - 1
    /\ replica_tree # NoTree

\* C6: whatever the order the parallel tasks of each layer ran in, a successful
\* encode_with_trees leaves the replica and returns the trees that the inputs
\* alone determine
C6_Deterministic ==
    (EncodeReturned /\ status = "ok") =>
        LET r == EncodeWithTrees(config, store_in, window_index, replica_id,
                                 orig_data, 0)
        IN  /\ r.status = "ok"
            /\ data = r.data
            /\ trees = r.trees
            /\ replica_tree = r.replica_tree

\* a successful encode with expander layers in which tasks ran out of node order
C6_Witness ==
    /\ EncodeReturned /\ status = "ok" /\ out_of_order
    /\ config.num_expander_layers >= 2
    /\ data # orig_data

\* =========================================================================
\* Single calls of the layer functions, on any buffers and any layer index
\* =========================================================================

\* buffer lengths tried, in nodes: shorter than a window, a window, longer
CallLengths(cfg) == 0..(cfg.num_nodes_window + 1)

\* input layers tried
InBuffers(cfg) == UNION {[1..n -> {0, TruncRange - 1}] : n \in CallLengths(cfg)}

\* output buffers tried: all zero, or holding old content
OutBuffers(cfg) == UNION {[1..n -> {v}] : v \in {0, NodeMax}, n \in CallLengths(cfg)}

\* data buffers tried: field elements and values that are none
CallData(cfg) == UNION {[1..n -> {1, NodeMax}] : n \in CallLengths(cfg)}

\* layer indexes tried: every u32 up to one past the last layer
LayerIndexes(cfg) == 0..(NumLayers(cfg) + 1)

InitCalls ==
    /\ config \in Configs
    /\ replica_id \in ReplicaIds
    /\ window_index \in WindowIndexes
    /\ store_in = <<>> /\ orig_data = <<>> /\ data = <<>> /\ store_configs = <<>>
    /\ WinIdle
    /\ BatchIdle
    /\ call = NoCall

\* what a call leaves: its arguments, whether it returned Ok, the buffer after
\* (one call is followed from a fresh state)
Called(fn, lidx, layer_in, before, r) ==
    /\ call' = [fn |-> fn, layer_index |-> lidx, layer_in |-> layer_in,
                before |-> before, ok |-> r.ok, out |-> r.out]
    /\ UNCHANGED <<inputVars, winVars, batchVars>>

CallMask ==
    /\ call = NoCall
    /\ \E layer_out \in OutBuffers(config) :
        Called("mask_layer", 1, <<>>, layer_out,
               MaskLayer(config, window_index, replica_id, layer_out))

CallExpander ==
    /\ call = NoCall
    /\ \E lidx \in LayerIndexes(config), layer_in \in InBuffers(config),
       layer_out \in OutBuffers(config) :
        Called("expander_layer", lidx, layer_in, layer_out,
               ExpanderLayer(config, window_index, replica_id, lidx, layer_in, layer_out))

CallButterfly ==
    /\ call = NoCall
    /\ \E lidx \in LayerIndexes(config), layer_in \in InBuffers(config),
       layer_out \in OutBuffers(config) :
        Called("butterfly_layer", lidx, layer_in, layer_out,
               ButterflyLayer(config, window_index, replica_id, lidx, layer_in, layer_out))

CallEncode ==
    /\ call = NoCall
    /\ \E lidx \in LayerIndexes(config), layer_in \in InBuffers(config),
       d \in CallData(config) :
        Called("butterfly_encode_layer", lidx, layer_in, d,
               ButterflyEncodeLayer(config, window_index, replica_id, lidx, layer_in, d))

CallDecode ==
    /\ call = NoCall
    /\ \E lidx \in LayerIndexes(config), layer_in \in InBuffers(config),
       d \in CallData(config) :
        Called("butterfly_decode_layer", lidx, layer_in, d,
               ButterflyDecodeLayer(config, window_index, replica_id, lidx, layer_in, d))

\* the arguments hash_prefix is tried on: 0, 1 and 6, the ends of one, two and
\* three bytes, a value of four different bytes, the largest integer of the model
PrefixValues == {0, 1, 6, 255, 256, 65535, 65536, 16909060, 2147483647}

\* hash_prefix(layer, node_index)
CallHashPrefix ==
    /\ call = NoCall
    /\ \E layer \in PrefixValues, node_index \in PrefixValues :
        call' = [fn |-> "hash_prefix", layer |-> layer, node_index |-> node_index,
                 out |-> HashPrefix(layer, node_index)]
    /\ UNCHANGED <<inputVars, winVars, batchVars>>

\* data buffers tried for a round trip: the least and the greatest field
\* element, and the least value that is none
RoundTripData(cfg) ==
    UNION {[1..n -> {0, Modulus - 1, Modulus}] : n \in CallLengths(cfg)}

\* butterfly_encode_layer, then butterfly_decode_layer with the same arguments
\* and the same layer_in on the buffer the first call left (the second call is
\* made when the first returned Ok)
CallEncodeThenDecode ==
    /\ call = NoCall
    /\ \E lidx \in LayerIndexes(config), layer_in \in InBuffers(config) \cup OutBuffers(config),
          d \in RoundTripData(config) :
        \E e \in {ButterflyEncodeLayer(config, window_index, replica_id, lidx, layer_in, d)} :
        \E r \in {IF e.ok
                   THEN ButterflyDecodeLayer(config, window_index, replica_id, lidx,
                                             layer_in, e.out)
                   ELSE e} :
            call' = [fn |-> "encode_then_decode", layer_index |-> lidx,
                     layer_in |-> layer_in, before |-> d, mid |-> e.out,
                     ok |-> e.ok /\ r.ok, out |-> r.out]
    /\ UNCHANGED <<inputVars, winVars, batchVars>>

\* the layer indexes the absolute index is paired with in a prefix
IndexLayers == {1, 2}

\* node_absolute_index and its prefix for node `i` of window `w`, for every u32
\* window index and every u32 number of nodes in a window
CallNodeAbsoluteIndex ==
    /\ call = NoCall
    /\ \E lidx \in IndexLayers, w \in 0..(U32Range - 1), n \in 1..(U32Range - 1) :
        \E i \in 0..(n - 1) :
        \E index \in {NodeAbsoluteIndex([config EXCEPT !.num_nodes_window = n], w, i)} :
            call' = [fn |-> "node_absolute_index", layer_index |-> lidx,
                     window_index |-> w, num_nodes_window |-> n, node_index |-> i,
                     out |-> index, prefix |-> HashPrefix(lidx, index)]
    /\ UNCHANGED <<inputVars, winVars, batchVars>>

NextCalls ==
    \/ CallMask \/ CallExpander \/ CallButterfly \/ CallEncode \/ CallDecode
    \/ CallHashPrefix \/ CallEncodeThenDecode \/ CallNodeAbsoluteIndex

SpecCalls == InitCalls /\ [][NextCalls]_vars

\* the functions that take an input layer and an output or data buffer
TwoBufferFns ==
    {"expander_layer", "butterfly_layer", "butterfly_encode_layer",
     "butterfly_decode_layer"}

\* C9: mask_layer fails when layer_out is not window_size bytes; expander_layer,
\* butterfly_layer, butterfly_encode_layer and butterfly_decode_layer fail when
\* the two buffers differ in length or either is not window_size bytes
C9_LengthPrecondition ==
    /\ (call.fn = "mask_layer" /\ ByteLen(call.before) # WindowSize(config))
          => ~call.ok
    /\ (/\ call.fn \in TwoBufferFns
        /\ \/ ByteLen(call.layer_in) # ByteLen(call.before)
           \/ ByteLen(call.layer_in) # WindowSize(config)
           \/ ByteLen(call.before) # WindowSize(config))
          => ~call.ok

\* expander_layer rejected for its input layer alone: the index is in range and
\* the output buffer is a window
C9_Witness ==
    /\ call.fn = "expander_layer" /\ ~call.ok
    /\ ExpanderIndexPre(config, call.layer_index)
    /\ ByteLen(call.before) = WindowSize(config)
    /\ ByteLen(call.layer_in) > WindowSize(config)

\* C10: on buffers of window_size bytes, expander_layer fails for every
\* layer_index <= 1 and every layer_index > num_expander_layers, and succeeds for
\* every layer_index in 2..num_expander_layers
C10_ExpanderIndex ==
    call.fn = "expander_layer" =>
        /\ (call.layer_index <= 1 \/ call.layer_index > config.num_expander_layers)
              => ~call.ok
        /\ (/\ call.layer_index >= 2
            /\ call.layer_index <= config.num_expander_layers
            /\ ByteLen(call.layer_in) = WindowSize(config)
            /\ ByteLen(call.before) = WindowSize(config))
              => call.ok

\* expander_layer accepted at the last expander layer
C10_Witness ==
    /\ call.fn = "expander_layer" /\ call.ok
    /\ call.layer_index = config.num_expander_layers
    /\ call.layer_index = MaxExpanderLayers

RECURSIVE BeValue(_, _, _)
BeValue(s, first, last) ==
    IF last < first THEN 0 ELSE BeValue(s, first, last - 1) * 256 + s[last]

\* C13: hash_prefix(layer, node_index) is 32 bytes: bytes 0..4 are layer in big
\* endian, bytes 4..12 are node_index in big endian, bytes 12..32 are zero; so
\* hash_prefix(0, 0) is all zero and hash_prefix(1, 6) has 1 at byte 3 and 6 at
\* byte 11
C13_HashPrefix ==
    call.fn = "hash_prefix" =>
        /\ Len(call.out) = 32
        /\ \A b \in 1..32 : call.out[b] \in 0..255
        /\ BeValue(call.out, 1, 4) = call.layer
        /\ BeValue(call.out, 5, 12) = call.node_index
        /\ \A b \in 13..32 : call.out[b] = 0
        /\ (call.layer = 0 /\ call.node_index = 0) => call.out = Zeros(32)
        /\ (call.layer = 1 /\ call.node_index = 6) =>
              call.out = [b \in 1..32 |-> IF b = 4 THEN 1 ELSE IF b = 12 THEN 6 ELSE 0]

\* hash_prefix called on a layer of four different bytes and a node index of
\* more than one byte
C13_Witness ==
    /\ call.fn = "hash_prefix"
    /\ call.layer = 16909060 /\ call.node_index = 65535
    /\ call.out[1] = 1 /\ call.out[2] = 2 /\ call.out[3] = 3 /\ call.out[4] = 4
    /\ call.out[11] = 255 /\ call.out[12] = 255

\* C14: on a data buffer of field elements, butterfly_encode_layer followed by
\* butterfly_decode_layer with the same arguments and the same layer_in leaves
\* the buffer as it was; on windows and the last layer index both calls succeed
C14_LayerRoundTrip ==
    (call.fn = "encode_then_decode" /\ LeavesValid(call.before)) =>
        /\ call.out = call.before
        /\ EncodePre(config, call.layer_index, call.layer_in, call.before) => call.ok

\* a round trip through an encoded buffer that differs from the data, under an
\* input layer that holds values that are no field elements
C14_Witness ==
    /\ call.fn = "encode_then_decode" /\ call.ok
    /\ LeavesValid(call.before)
    /\ \A i \in DOMAIN call.before : call.mid[i] # call.before[i]
    /\ call.out = call.before
    /\ \E i \in DOMAIN call.layer_in : ~IsFr(call.layer_in[i])

\* the functions that compute a layer into layer_out
LayerFns == {"mask_layer", "expander_layer", "butterfly_layer"}

\* the two high bits of the node are zero
Truncated(v) == v \in 0..(TruncRange - 1)

\* C20: after a successful mask_layer, expander_layer or butterfly_layer every
\* node of the output has its two high bits zero, whatever the buffer held; the
\* key the encode/decode layer derives for each node is truncated the same way,
\* so it is a field element and the layer fails on no key
C20_Truncation ==
    /\ (call.fn \in LayerFns /\ call.ok) =>
          \A i \in DOMAIN call.out : Truncated(call.out[i])
    /\ (/\ call.fn \in {"butterfly_encode_layer", "butterfly_decode_layer"}
        /\ EncodePre(config, call.layer_index, call.layer_in, call.before)) =>
          /\ \A i \in Nodes(config) :
                \A key \in {EncodeKey(config, window_index, replica_id,
                                       call.layer_index, call.layer_in, i)} :
                    Truncated(key) /\ IsFr(key)
          /\ LeavesValid(call.before) => call.ok

\* butterfly_layer on an output buffer of nodes with all bits set, a node of it
\* having a digest with a high bit set
C20_Witness ==
    /\ call.fn = "butterfly_layer" /\ call.ok
    /\ \A i \in DOMAIN call.before : call.before[i] = NodeMax
    /\ \E i \in Nodes(config) :
          /\ ~Truncated(ButterflyDigest(config, window_index, replica_id,
                                        call.layer_index, call.layer_in, i))
          /\ Truncated(call.out[i + 1])

\* =========================================================================
\* Properties of one window (Spec): the schedule of the layers and the buffers
\* =========================================================================

\* the functions of the encoding layer
EncodingFns == {"butterfly_encode_layer", "butterfly_decode_layer"}

\* the last call logged
LastCall == layer_log[Len(layer_log)]

\* C12: butterfly_encode_layer and butterfly_decode_layer fail for every
\* layer_index other than num_expander_layers + num_butterfly_layers, and
\* encode_with_trees and decode call them with exactly that layer index
C12_EncodeIndex ==
    /\ \A j \in DOMAIN layer_log :
          layer_log[j].fn \in EncodingFns =>
              layer_log[j].layer_index =
                  config.num_expander_layers + config.num_butterfly_layers
    /\ pc = "enc_layer" =>
          \A l \in LayerIndexes(config) :
              l # config.num_expander_layers + config.num_butterfly_layers =>
                  /\ ~ButterflyEncodeLayer(config, window_index, replica_id, l,
                                           previous_layer, data).ok
                  /\ ~ButterflyDecodeLayer(config, window_index, replica_id, l,
                                           previous_layer, data).ok

\* decode has called butterfly_decode_layer, which accepted the index, after
\* expander and butterfly layers
C12_Witness ==
    /\ DecodeReturned /\ status = "ok"
    /\ LastCall.fn = "butterfly_decode_layer"
    /\ LastCall.layer_index = MaxExpanderLayers + MaxButterflyLayers

\* the function the schedule gives layer l: the mask, the expander layers up to
\* num_expander_layers, the butterfly layers below num_layers, the encoding layer
ScheduledFn(l) ==
    IF l = 1 THEN "mask_layer"
    ELSE IF l <= config.num_expander_layers THEN "expander_layer"
    ELSE IF l < NumLayers(config) THEN "butterfly_layer"
    ELSE IF mode = "encode" THEN "butterfly_encode_layer"
    ELSE "butterfly_decode_layer"

\* the j-th layer a run computes is layer j, by the function scheduled for it,
\* and a run that returned Ok computed num_layers layers
ScheduleFollowed ==
    /\ \A j \in DOMAIN layer_log :
          layer_log[j].layer_index = j /\ layer_log[j].fn = ScheduledFn(j)
    /\ (pc = "returned" /\ status = "ok") => Len(layer_log) = NumLayers(config)

\* where the window is: 0 Idle, 1 Masking, 2 Expanding, 3 Butterflying,
\* 4 Encoding, 5 Committing, 6 Done, 7 Failed
Phase ==
    CASE pc = "idle" -> 0
      [] pc = "mask" -> 1
      [] pc \in {"exp_head", "exp"} -> 2
      [] pc \in {"bfly_head", "bfly"} -> 3
      [] pc = "enc_layer" -> 4
      [] pc = "replica" -> 5
      [] pc = "returned" /\ status = "ok" -> 6
      [] OTHER -> 7

\* within a run the window moves forward through the phases or to Failed, and
\* leaves neither Done nor Failed
PhaseStep ==
    mode' = mode =>
        /\ Phase' >= Phase
        /\ Phase >= 6 => Phase' = Phase

\* C16: every run of encode_with_trees and of decode computes the layers in
\* increasing order, each index 1..num_layers once: layer 1 by mask_layer, layers
\* 2..num_expander_layers by expander_layer, the layers after them and below
\* num_layers by butterfly_layer, layer num_layers by the encoding layer; the
\* window moves through Idle, Masking, Expanding, Butterflying, Encoding,
\* Committing, Done and leaves this order only for Failed
C16_LayerSchedule == [](ScheduleFollowed) /\ [][PhaseStep]_vars

\* a layer function is reading previous_layer as its layer_in: the tasks of an
\* expander or butterfly layer run, or the encoding layer is about to be called
ReadsPrevious == pc \in {"exp", "bfly", "enc_layer"}

\* the number, in the order of the run, of the layer that reads previous_layer
ReaderPosition == IF pc = "enc_layer" THEN Len(layer_log) + 1 ELSE Len(layer_log)

\* the layer buffers allocated and not dropped
LiveBuffers == {b \in {"previous_layer", "current_layer"} :
                  IF b = "previous_layer" THEN previous_layer # <<>>
                  ELSE current_layer # <<>>}

\* C17: whenever a layer with index l >= 2 is computed, the buffer passed as its
\* layer_in holds the complete output of the layer computed just before, whose
\* index is l - 1; the layer buffers are windows, at most two are live, and
\* encode_with_trees holds one during the encoding layer and none after it
C17_DoubleBuffer ==
    /\ (ReadsPrevious /\ layer_index >= 2) =>
          /\ layer_log[ReaderPosition - 1].layer_index = layer_index - 1
          /\ previous_layer =
                LayerOutput(config, window_index, replica_id, ReaderPosition - 1)
    /\ Cardinality(LiveBuffers) <= 2
    /\ previous_layer # <<>> => ByteLen(previous_layer) = WindowSize(config)
    /\ current_layer # <<>> => ByteLen(current_layer) = WindowSize(config)
    /\ (mode = "encode" /\ pc = "enc_layer") => LiveBuffers = {"previous_layer"}
    /\ pc \in {"replica", "returned"} => LiveBuffers = {}

\* decode about to call the decoding layer after expander and butterfly layers,
\* the two buffers holding the last two layers
C17_Witness ==
    /\ mode = "decode" /\ pc = "enc_layer"
    /\ config.num_expander_layers = MaxExpanderLayers
    /\ config.num_butterfly_layers = MaxButterflyLayers
    /\ previous_layer = LayerOutput(config, window_index, replica_id, NumInner(config))
    /\ current_layer =
          LayerOutput(config, window_index, replica_id, NumInner(config) - 1)
    /\ previous_layer # current_layer

\* a step that builds the tree of a layer: every task of the layer has run, the
\* layer is the one computed last, and the tree is that of its complete output
LayerTreeStep ==
    Len(trees') = Len(trees) + 1 =>
        /\ pending = {}
        /\ Len(trees') = Len(layer_log)
        /\ trees'[Len(trees')].root =
              MerkleRoot(LayerOutput(config, window_index, replica_id, Len(trees')))
        /\ trees'[Len(trees')].leafs = config.num_nodes_window
        /\ \A p \in DOMAIN trees : trees'[p] = trees[p]

\* the step that builds the replica tree: the tree is that of the caller's
\* buffer, which holds the whole encoded layer
ReplicaTreeStep ==
    replica_tree' # replica_tree =>
        /\ replica_tree'.root = MerkleRoot(data)
        /\ data = ButterflyEncodeLayer(config, window_index, replica_id,
                      NumLayers(config),
                      LayerOutput(config, window_index, replica_id, NumInner(config)),
                      orig_data).out

\* while a layer is written every layer computed before it has its tree, and
\* the encoding layer runs when all of them have
TreesBeforeReuse ==
    /\ (mode = "encode" /\ pc \in {"exp", "bfly"}) => Len(trees) = Len(layer_log) - 1
    /\ (mode = "encode" /\ pc \in {"enc_layer", "replica"}) =>
          Len(trees) = NumInner(config)

\* C18: in encode_with_trees the tree of each layer is built from the buffer
\* that holds the whole of that layer, after its last node was written and
\* before a later layer writes into that buffer, and the replica tree is built
\* from the encoded data
C18_CommitBeforeReuse ==
    [](TreesBeforeReuse) /\ [][LayerTreeStep /\ ReplicaTreeStep]_vars

\* a task of a later butterfly layer has written into the buffer of a layer
\* whose tree is built, the trees of expander and butterfly layers among them
C18_Witness ==
    /\ mode = "encode" /\ pc = "bfly" /\ pending # Nodes(config)
    /\ config.num_expander_layers = MaxExpanderLayers
    /\ Len(trees) = MaxExpanderLayers
    /\ current_layer # LayerOutput(config, window_index, replica_id, Len(trees) - 1)
    /\ trees[Len(trees) - 1].root =
          MerkleRoot(LayerOutput(config, window_index, replica_id, Len(trees) - 1))

\* the parallel loop of a layer function is running
InParallelLoop == pc \in {"mask", "exp", "bfly"}

\* the layer_out of the running layer function
LayerOutBuffer == IF pc = "mask" THEN previous_layer ELSE current_layer

\* a step of one task of the running layer: the task of one pending node i,
\* which writes node i of layer_out and no other, leaves layer_in as it is, and
\* writes the value the layer has at node i whatever layer_out holds and
\* whichever tasks ran before
TaskStepIsolated ==
    (InParallelLoop /\ pc' = pc /\ pending' # pending) =>
        \A out \in {LayerOutput(config, window_index, replica_id, Len(layer_log))} :
        \E i \in pending :
            /\ pending' = pending \ {i}
            /\ \A j \in Nodes(config) \ {i} : LayerOutBuffer'[j + 1] = LayerOutBuffer[j + 1]
            /\ pc # "mask" => previous_layer' = previous_layer
            /\ LayerOutBuffer'[i + 1] = out[i + 1]

\* C19: in mask_layer, expander_layer and butterfly_layer the task of node i
\* writes node i of layer_out only and reads layer_in only, so no two tasks write
\* the same node, no task reads what another writes, and the finished layer is
\* the same under every order of the tasks
C19_RaceFree == [][TaskStepIsolated]_vars

\* in an expander layer the task of the last node has run and the task of the
\* first has not: the last node holds its final value, the first its old one
C19_Witness ==
    /\ pc = "exp" /\ pending = {0}
    /\ current_layer[config.num_nodes_window] =
          LayerOutput(config, window_index, replica_id,
                      Len(layer_log))[config.num_nodes_window]
    /\ current_layer[1] # LayerOutput(config, window_index, replica_id, Len(layer_log))[1]

\* =========================================================================
\* A batch: encode_with_trees_all with its two backends
\* =========================================================================

\* the data buffers a window of a batch holds: field elements throughout, or a
\* last node that is no field element
BatchData(cfg) ==
    {[i \in 1..cfg.num_nodes_window |-> i],
     [i \in 1..cfg.num_nodes_window |-> IF i = cfg.num_nodes_window THEN Modulus ELSE i]}

\* window w of a batch: its own store configs, its index in the sector, its data
BatchWindow(cfg, w, d) ==
    [store_configs |-> [i \in 1..NumLayers(cfg) |-> 10 * w + i],
     window_index |-> w - 1,
     data |-> d]

BatchInputs(cfg) ==
    UNION {{[w \in 1..n |-> BatchWindow(cfg, w, ds[w])] : ds \in [1..n -> BatchData(cfg)]}
           : n \in 1..MaxWindows}

Windows == DOMAIN inps

NoResult == [status |-> "none", data |-> <<>>, trees |-> <<>>, replica_tree |-> NoTree]

InitBatch ==
    /\ config \in Configs
    /\ replica_id = CHOOSE r \in ReplicaIds : \A q \in ReplicaIds : r <= q
    /\ window_index = 0
    /\ store_in = <<>> /\ orig_data = <<>> /\ data = <<>> /\ store_configs = <<>>
    /\ WinIdle
    /\ call = NoCall
    /\ inps \in BatchInputs(config)
    /\ orig_inps = inps
    /\ use_gpu_nse \in BOOLEAN
    /\ tree_is_gpu \in BOOLEAN
    /\ lock_held = FALSE /\ flag_reads = 0 /\ bpc = "start"
    /\ gpu_attempted = FALSE /\ gpu_failed = FALSE /\ gpu_layers = <<>> /\ gpu_next = 0
    /\ cpu_inps = <<>> /\ cpu_todo = {} /\ cpu_order = <<>> /\ slots = <<>>
    /\ results = <<>> /\ batch_status = "none"

\* the `if` condition: use_gpu_nse && TypeId::of::<Tree>() == TypeId::of::<GPUTree>()
GpuSelectedFlagOnly(flag, is_gpu_tree) == flag
GpuSelected(flag, is_gpu_tree) == flag /\ is_gpu_tree

\* encode_with_trees_all_cpu is entered with the batch as it now is
StartCpu ==
    /\ bpc' = "cpu"
    /\ cpu_inps' = inps
    /\ cpu_todo' = Windows
    /\ cpu_order' = <<>>
    /\ slots' = [w \in Windows |-> NoResult]

\* settings::SETTINGS.lock().unwrap(): the guard is a temporary of the condition
BatchLock ==
    /\ bpc = "start"
    /\ ~lock_held
    /\ lock_held' = TRUE
    /\ bpc' = "cond"
    /\ UNCHANGED <<inps, orig_inps, use_gpu_nse, tree_is_gpu, flag_reads, gpu_attempted,
                   gpu_failed, gpu_layers, gpu_next, cpu_inps, cpu_todo, cpu_order,
                   slots, results, batch_status>>
    /\ UNCHANGED <<inputVars, winVars, call>>

\* the condition is evaluated, its temporaries (the guard) are dropped, and the
\* branch is taken: the GPU backend, or straight to the CPU backend
BatchDispatch ==
    /\ bpc = "cond"
    /\ flag_reads' = flag_reads + 1
    /\ lock_held' = FALSE
    /\ IF GpuSelected(use_gpu_nse, tree_is_gpu)
       THEN /\ gpu_attempted' = TRUE
            /\ bpc' = "gpu_pool"
            /\ UNCHANGED <<cpu_inps, cpu_todo, cpu_order, slots>>
       ELSE /\ StartCpu
            /\ UNCHANGED gpu_attempted
    /\ UNCHANGED <<inps, orig_inps, use_gpu_nse, tree_is_gpu, gpu_failed, gpu_layers,
                   gpu_next, results, batch_status>>
    /\ UNCHANGED <<inputVars, winVars, call>>

\* Err(e) from the GPU backend: error!(..), then the CPU backend on inps
GpuFails ==
    /\ gpu_failed' = TRUE
    /\ StartCpu

\* gpu::utils::all_devices()? and gpu::SealerPool::new(..)?
GpuPoolNew ==
    /\ bpc = "gpu_pool"
    /\ \E created \in BOOLEAN :
        IF created
        THEN /\ bpc' = "gpu_seal"
             /\ UNCHANGED <<gpu_failed, cpu_inps, cpu_todo, cpu_order, slots>>
        ELSE GpuFails
    /\ UNCHANGED <<inps, orig_inps, use_gpu_nse, tree_is_gpu, lock_held, flag_reads,
                   gpu_attempted, gpu_layers, gpu_next, results, batch_status>>
    /\ UNCHANGED <<inputVars, winVars, call>>

\* layer l of a window as the sealer computes it: 1 the mask, up to
\* num_expander_layers expander layers, then butterfly layers
RECURSIVE SealerLayer(_, _, _, _)
SealerLayer(cfg, widx, rid, l) ==
    IF l <= 1
    THEN MaskLayer(cfg, widx, rid, Zeros(cfg.num_nodes_window)).out
    ELSE IF l <= cfg.num_expander_layers
    THEN ExpanderLayer(cfg, widx, rid, l, SealerLayer(cfg, widx, rid, l - 1),
                       Zeros(cfg.num_nodes_window)).out
    ELSE ButterflyLayer(cfg, widx, rid, l, SealerLayer(cfg, widx, rid, l - 1),
                        Zeros(cfg.num_nodes_window)).out

\* pool.seal_on_gpu(inp): one output per layer 1..num_layers, the last one the
\* encoding of original_data; each output is a Result
SealOnGpu(cfg, rid, widx, original_data) ==
    LET L == NumLayers(cfg)
        e == ButterflyEncodeLayer(cfg, widx, rid, L,
                 SealerLayer(cfg, widx, rid, IF L > 1 THEN L - 1 ELSE 1), original_data)
    IN  [l \in 1..L |->
            IF l < L THEN [ok |-> TRUE, base |-> SealerLayer(cfg, widx, rid, l)]
            ELSE [ok |-> e.ok, base |-> e.out]]

\* the first map and its collect: every window is handed to the sealer with a
\* copy of its data
GpuSealAll ==
    /\ bpc = "gpu_seal"
    /\ gpu_layers' = [w \in Windows |->
                        SealOnGpu(config, replica_id, inps[w].window_index, inps[w].data)]
    /\ gpu_next' = 1
    /\ bpc' = "gpu_trees"
    /\ UNCHANGED <<inps, orig_inps, use_gpu_nse, tree_is_gpu, lock_held, flag_reads,
                   gpu_attempted, gpu_failed, cpu_inps, cpu_todo, cpu_order, slots,
                   results, batch_status>>
    /\ UNCHANGED <<inputVars, winVars, call>>

\* `if layer_index == conf.num_layers() - 1`, layer_index counting from 0
GpuCopiesDataNever(cfg, lidx) == lidx = NumLayers(cfg)
GpuCopiesData(cfg, lidx) == lidx = NumLayers(cfg) - 1

\* the store written from lo.base and lo.tree, reopened as an LC tree
GpuTree(cfg, lo, store_config) ==
    [root |-> MerkleRoot(lo.base), store |-> store_config, leafs |-> cfg.num_nodes_window]

\* the data buffer of a window after the loop over its layer outputs
GpuDataAfter(cfg, layers, d) ==
    LET copied == {l \in 1..Len(layers) : GpuCopiesData(cfg, l - 1)}
    IN  IF copied = {} THEN d ELSE layers[CHOOSE l \in copied : TRUE].base

\* the second map, for window gpu_next: its layer outputs in order, each written
\* to its store and reopened; the last tree is popped as the replica tree.  An
\* output that is an Err, or a store that cannot be created, written or
\* reopened, returns Err from the backend; store_configs.remove(0) on an empty
\* list and the assert on a window without a tree panic
GpuWindowTrees ==
    /\ bpc = "gpu_trees" /\ gpu_next <= Len(inps)
    /\ LET w == gpu_next
           layers == gpu_layers[w]
           sc == inps[w].store_configs
           sealed == \A l \in 1..Len(layers) : layers[l].ok
       IN  \E fails \in BOOLEAN :
            IF ~fails /\ sealed /\ Len(layers) >= 1 /\ Len(sc) >= Len(layers)
            THEN LET all == [l \in 1..Len(layers) |-> GpuTree(config, layers[l], sc[l])]
                 IN  /\ inps' = [inps EXCEPT
                                   ![w].data = GpuDataAfter(config, layers, inps[w].data)]
                     /\ results' = Append(results,
                            [status |-> "ok",
                             trees |-> SubSeq(all, 1, Len(all) - 1),
                             replica_tree |-> all[Len(all)]])
                     /\ gpu_next' = gpu_next + 1
                     /\ UNCHANGED <<bpc, gpu_failed, cpu_inps, cpu_todo, cpu_order, slots,
                                    batch_status>>
            ELSE IF ~fails /\ sealed
            THEN /\ inps' = [inps EXCEPT
                               ![w].data = GpuDataAfter(config, layers, inps[w].data)]
                 /\ bpc' = "done"
                 /\ batch_status' = "panic"
                 /\ results' = <<>>
                 /\ UNCHANGED <<gpu_next, gpu_failed, cpu_inps, cpu_todo, cpu_order, slots>>
            ELSE /\ GpuFails
                 /\ results' = <<>>
                 /\ UNCHANGED <<inps, gpu_next, batch_status>>
    /\ UNCHANGED <<orig_inps, use_gpu_nse, tree_is_gpu, lock_held, flag_reads,
                   gpu_attempted, gpu_layers>>
    /\ UNCHANGED <<inputVars, winVars, call>>

\* Ok(outputs) from the GPU backend is returned as it is
GpuReturn ==
    /\ bpc = "gpu_trees" /\ gpu_next > Len(inps)
    /\ bpc' = "done"
    /\ batch_status' = "ok"
    /\ UNCHANGED <<inps, orig_inps, use_gpu_nse, tree_is_gpu, lock_held, flag_reads,
                   gpu_attempted, gpu_failed, gpu_layers, gpu_next, cpu_inps, cpu_todo,
                   cpu_order, slots, results>>
    /\ UNCHANGED <<inputVars, winVars, call>>

\* tree builds the store may reject in a window task: none, or the replica tree
TaskFailures(cfg) == {0, NumInner(cfg) + 1}

\* the closure of the CPU backend for one window: encode_with_trees on the
\* window's own store configs (cloned), index and data
CpuTaskResult(cfg, rid, win, f) ==
    EncodeWithTrees(cfg, win.store_configs, win.window_index, rid, win.data, f)

\* one task of inps.into_par_iter().map(..): it runs encode_with_trees on its
\* window and writes that window's data buffer
CpuTask ==
    /\ bpc = "cpu"
    /\ \A v \in Windows : slots[v].status # "panic"
    /\ \E w \in cpu_todo, f \in TaskFailures(config) :
        \E r \in {CpuTaskResult(config, replica_id, inps[w], f)} :
            /\ inps' = [inps EXCEPT ![w].data = r.data]
            /\ slots' = [slots EXCEPT ![w] = r]
            /\ cpu_todo' = cpu_todo \ {w}
            /\ cpu_order' = Append(cpu_order, w)
    /\ UNCHANGED <<orig_inps, use_gpu_nse, tree_is_gpu, lock_held, flag_reads, bpc,
                   gpu_attempted, gpu_failed, gpu_layers, gpu_next, cpu_inps, results,
                   batch_status>>
    /\ UNCHANGED <<inputVars, winVars, call>>

\* collect::<Result<Vec<_>>>() of an indexed parallel iterator: the items in the
\* order of the input
CollectInRunOrder(slot, order) ==
    [i \in 1..Len(order) |-> [status |-> "ok", trees |-> slot[order[i]].trees,
                              replica_tree |-> slot[order[i]].replica_tree]]
CollectResults(slot, order) ==
    [i \in 1..Len(order) |-> [status |-> "ok", trees |-> slot[i].trees,
                              replica_tree |-> slot[i].replica_tree]]

\* the collect returns: Ok once every task returned Ok; Err as soon as a task
\* returned Err (tasks not yet started need not run); a panic of a task unwinds
CpuCollect ==
    /\ bpc = "cpu"
    /\ LET st == {slots[w].status : w \in Windows}
       IN  \/ /\ "panic" \in st
              /\ batch_status' = "panic" /\ results' = <<>>
           \/ /\ "panic" \notin st /\ "err" \in st
              /\ batch_status' = "err" /\ results' = <<>>
           \/ /\ st = {"ok"}
              /\ batch_status' = "ok"
              /\ results' = CollectResults(slots, cpu_order)
    /\ bpc' = "done"
    /\ UNCHANGED <<inps, orig_inps, use_gpu_nse, tree_is_gpu, lock_held, flag_reads,
                   gpu_attempted, gpu_failed, gpu_layers, gpu_next, cpu_inps, cpu_todo,
                   cpu_order, slots>>
    /\ UNCHANGED <<inputVars, winVars, call>>

NextBatch ==
    \/ BatchLock \/ BatchDispatch
    \/ GpuPoolNew \/ GpuSealAll \/ GpuWindowTrees \/ GpuReturn
    \/ CpuTask \/ CpuCollect

SpecBatch == InitBatch /\ [][NextBatch]_vars

\* -------------------------------------------------------------------------
\* Properties of a batch
\* -------------------------------------------------------------------------

BatchDone == bpc = "done"
CpuRan == cpu_inps # <<>>

\* what encode_with_trees alone gives for window w of a batch, every store
\* accepting its tree
AloneOn(batch, w) ==
    EncodeWithTrees(config, batch[w].store_configs, batch[w].window_index, replica_id,
                    batch[w].data, 0)

\* the trees and the replica tree of a result
TreesOf(r) == [trees |-> r.trees, replica_tree |-> r.replica_tree]

\* C2: when the GPU backend failed and the batch then returned Ok from the CPU
\* backend, every window's replica and trees are those the CPU backend alone
\* gives on the caller's original windows.
C2_FallbackTransparent ==
    (BatchDone /\ gpu_failed /\ batch_status = "ok") =>
        \A w \in Windows : \A alone \in {AloneOn(orig_inps, w)} :
            /\ alone.status = "ok"
            /\ inps[w].data = alone.data
            /\ TreesOf(results[w]) = TreesOf(alone)

C7_Dispatch ==
    /\ flag_reads <= 1
    /\ bpc \notin {"start", "cond"} =>
        /\ flag_reads = 1
        /\ ~lock_held
        /\ gpu_attempted <=> (use_gpu_nse /\ tree_is_gpu)
        /\ ~gpu_attempted => (CpuRan /\ gpu_layers = <<>> /\ ~gpu_failed)
    /\ lock_held => bpc = "cond"

\* the flag is set, the tree type is not the GPU tree type, and the CPU backend
\* finished the batch
C7_Witness ==
    /\ BatchDone /\ use_gpu_nse /\ ~tree_is_gpu /\ ~gpu_attempted /\ CpuRan
    /\ flag_reads = 1 /\ ~lock_held /\ batch_status = "ok"

\* C8: in the CPU backend a window whose task has not run holds the data it was
\* handed, and when the batch returns every window that ran holds what
\* encode_with_trees alone leaves in it and, in an Ok batch, results[w] holds the
\* trees of that call for window w.
C8_WindowsIndependent ==
    CpuRan =>
        /\ \A w \in cpu_todo : inps[w] = cpu_inps[w] /\ slots[w] = NoResult
        /\ \A w \in Windows \ cpu_todo : inps[w].data = slots[w].data
        /\ BatchDone =>
            /\ batch_status = "ok" => (cpu_todo = {} /\ Len(results) = Len(inps))
            /\ \A w \in Windows \ cpu_todo : \A alone \in {AloneOn(cpu_inps, w)} :
                /\ slots[w].data = alone.data
                /\ slots[w].status = "ok" => slots[w] = alone
                /\ alone.status # "ok" => slots[w] = alone
                /\ batch_status = "ok" => TreesOf(results[w]) = TreesOf(alone)

\* two windows ran last-first and the batch returned Ok
C8_Witness ==
    /\ BatchDone /\ CpuRan /\ batch_status = "ok"
    /\ Len(cpu_order) >= 2 /\ cpu_order[1] > cpu_order[2]
    /\ \A w \in Windows : inps[w].data # cpu_inps[w].data

\* =========================================================================
\* The GPU backend over a sealer that yields any number of layer outputs
\* =========================================================================

\* the outputs of a sealer that stops after k layers, or yields its last
\* output again beyond num_layers
SealerYields(cfg, rid, widx, original_data, k) ==
    LET all == SealOnGpu(cfg, rid, widx, original_data)
    IN  [l \in 1..k |-> IF l <= Len(all) THEN all[l] ELSE all[Len(all)]]

\* the first map and its collect, the sealer yielding for every window some
\* number of outputs between none and num_layers + 1
GpuSealAny ==
    /\ bpc = "gpu_seal"
    /\ \E k \in [Windows -> 0..(NumLayers(config) + 1)] :
        gpu_layers' = [w \in Windows |->
                         SealerYields(config, replica_id, inps[w].window_index,
                                      inps[w].data, k[w])]
    /\ gpu_next' = 1
    /\ bpc' = "gpu_trees"
    /\ UNCHANGED <<inps, orig_inps, use_gpu_nse, tree_is_gpu, lock_held, flag_reads,
                   gpu_attempted, gpu_failed, cpu_inps, cpu_todo, cpu_order, slots,
                   results, batch_status>>
    /\ UNCHANGED <<inputVars, winVars, call>>

NextSealer ==
    \/ BatchLock \/ BatchDispatch
    \/ GpuPoolNew \/ GpuSealAny \/ GpuWindowTrees \/ GpuReturn
    \/ CpuTask \/ CpuCollect

SpecSealer == InitBatch /\ [][NextSealer]_vars

\* the GPU backend returned Ok for the batch
GpuReturnedOk == BatchDone /\ gpu_attempted /\ ~gpu_failed /\ batch_status = "ok"

\* C23: whatever number of layer outputs the sealer yields for a window, a batch
\* the GPU backend returned Ok for holds for every window num_layers - 1 layer
\* trees, as replica tree the tree of layer num_layers in the last store config,
\* and as data the base nodes of layer num_layers
C23_GpuResultShape ==
    GpuReturnedOk =>
        \A w \in Windows :
            \A last \in {SealOnGpu(config, replica_id, orig_inps[w].window_index,
                                   orig_inps[w].data)[NumLayers(config)]} :
                /\ Len(results[w].trees) = NumLayers(config) - 1
                /\ results[w].replica_tree =
                       GpuTree(config, last, orig_inps[w].store_configs[NumLayers(config)])
                /\ inps[w].data = last.base

\* =========================================================================
\* Further properties of single calls (SpecCalls)
\* =========================================================================

\* C21: after mask_layer every node i of layer_out is the truncated SHA-256 of
\* hash_prefix(1, window_index * num_nodes_window + i) followed by replica_id,
\* whatever layer_out held before; no sector data enters the call
C21_MaskResult ==
    (call.fn = "mask_layer" /\ call.ok) =>
        /\ Len(call.out) = config.num_nodes_window
        /\ \A i \in 0..(config.num_nodes_window - 1) :
              call.out[i + 1] =
                  TruncateHash(Sha256Digest(
                      HashPrefix(1, window_index * config.num_nodes_window + i)
                          \o <<replica_id>>))

\* mask_layer on a window other than the first, over a buffer of nodes with all
\* bits set, every node of which it replaced
C21_Witness ==
    /\ call.fn = "mask_layer" /\ call.ok
    /\ window_index >= 1
    /\ \A i \in DOMAIN call.before : call.before[i] = NodeMax /\ call.out[i] # NodeMax

\* the lowest index of a data node that is no field element (Len when all are)
FirstInvalid(d) ==
    IF \A p \in DOMAIN d : IsFr(d[p]) THEN Len(d)
    ELSE (CHOOSE p \in DOMAIN d :
              ~IsFr(d[p]) /\ \A q \in 1..(p - 1) : IsFr(d[q])) - 1

\* C22: when j is the lowest index of a data node that is no field element,
\* butterfly_encode_layer and butterfly_decode_layer return an error, the nodes
\* below j have been processed and every node from j on, the valid ones after j
\* included, is as it was before the call
C22_FirstFailureAborts ==
    (/\ call.fn \in EncodingFns
     /\ EncodePre(config, call.layer_index, call.layer_in, call.before)
     /\ FirstInvalid(call.before) < Len(call.before)) =>
        /\ ~call.ok
        /\ \A i \in 0..(Len(call.before) - 1) :
              call.out[i + 1] =
                  IF i < FirstInvalid(call.before)
                  THEN FieldOp(IF call.fn = "butterfly_encode_layer" THEN "encode" ELSE "decode",
                               EncodeKey(config, window_index, replica_id, call.layer_index,
                                         call.layer_in, i),
                               call.before[i + 1])
                  ELSE call.before[i + 1]

\* a call that failed on its first node and left the field element after it
\* alone, although its key would have changed it
C22_Witness ==
    /\ call.fn \in EncodingFns /\ ~call.ok
    /\ EncodePre(config, call.layer_index, call.layer_in, call.before)
    /\ FirstInvalid(call.before) = 0
    /\ IsFr(call.before[2]) /\ call.out = call.before
    /\ FieldOp(IF call.fn = "butterfly_encode_layer" THEN "encode" ELSE "decode",
               EncodeKey(config, window_index, replica_id, call.layer_index,
                         call.layer_in, 1),
               call.before[2]) # call.before[2]

\* C25: for every u32 window_index and num_nodes_window and every local index
\* i < num_nodes_window the absolute index computed in u64 arithmetic is the
\* exact integer window_index * num_nodes_window + i, and no other triple
\* (layer_index, window_index, i) has the same hash prefix
C25_PrefixUnique ==
    call.fn = "node_absolute_index" =>
        /\ call.out = call.window_index * call.num_nodes_window + call.node_index
        /\ \A lidx \in IndexLayers, w \in 0..(U32Range - 1),
              i \in 0..(call.num_nodes_window - 1) :
              <<lidx, w, i>> # <<call.layer_index, call.window_index, call.node_index>> =>
                  HashPrefix(lidx,
                             NodeAbsoluteIndex(
                                 [config EXCEPT !.num_nodes_window = call.num_nodes_window],
                                 w, i)) # call.prefix

\* the last node of the last window of the largest sector: its absolute index
\* is no u32
C25_Witness ==
    /\ call.fn = "node_absolute_index"
    /\ call.window_index = U32Range - 1
    /\ call.num_nodes_window = U32Range - 1
    /\ call.node_index = call.num_nodes_window - 1
    /\ call.out >= U32Range

\* the call was made with a buffer of the wrong length or a layer index out of
\* the range of its function
PreconditionFailed ==
    \/ call.fn = "mask_layer" /\ ~MaskPre(config, call.before)
    \/ /\ call.fn = "expander_layer"
       /\ ~ExpanderPre(config, call.layer_index, call.layer_in, call.before)
    \/ /\ call.fn = "butterfly_layer"
       /\ ~ButterflyPre(config, call.layer_index, call.layer_in, call.before)
    \/ /\ call.fn \in EncodingFns
       /\ ~EncodePre(config, call.layer_index, call.layer_in, call.before)

\* C26: when mask_layer, expander_layer, butterfly_layer, butterfly_encode_layer
\* or butterfly_decode_layer fails on a length mismatch or a layer index out of
\* range, the output or data buffer is as it was before the call
C26_NoWriteOnPreconditionFailure ==
    PreconditionFailed => (~call.ok /\ call.out = call.before)

\* butterfly_layer called with layer index num_expander_layers on buffers of the
\* right length, the output buffer holding nodes that are no layer values
C26_Witness ==
    /\ call.fn = "butterfly_layer" /\ ~call.ok
    /\ call.layer_index = config.num_expander_layers
    /\ LengthPre(config, call.layer_in, call.before)
    /\ \A i \in DOMAIN call.before : call.before[i] = NodeMax
    /\ call.out = call.before

\* the key of node i in the recorded call: from the layer index, the window
\* index, i, the replica id and layer_in
CallKey(i) ==
    EncodeKey(config, window_index, replica_id, call.layer_index, call.layer_in, i)

\* C27: in butterfly_encode_layer and butterfly_decode_layer the value written
\* to data node i is the operation on the key of node i, derived from layer_in,
\* and the data node i of before the call, and of nothing else; the decode
\* that follows an encode uses for node i the key the encode used
C27_EncodeLayerFrame ==
    /\ (call.fn \in EncodingFns /\ call.ok) =>
          \A i \in 0..(Len(call.before) - 1) :
              call.out[i + 1] =
                  FieldOp(IF call.fn = "butterfly_encode_layer" THEN "encode" ELSE "decode",
                          CallKey(i), call.before[i + 1])
    /\ (call.fn = "encode_then_decode" /\ call.ok) =>
          \A i \in 0..(Len(call.before) - 1) : \A key \in {CallKey(i)} :
              /\ call.mid[i + 1] = FieldEncode(key, call.before[i + 1])
              /\ call.out[i + 1] = FieldDecode(key, call.mid[i + 1])

\* an encode of two equal data nodes that left two different nodes, over an
\* input layer that is not all zero
C27_Witness ==
    /\ call.fn = "butterfly_encode_layer" /\ call.ok
    /\ call.before[1] = call.before[2]
    /\ call.out[1] # call.out[2]
    /\ \E p \in DOMAIN call.layer_in : call.layer_in[p] # 0

\* =========================================================================
\* Further properties of one window (Spec)
\* =========================================================================

\* encode_with_trees is about to take a store config from the head of the list
RemovesConfig ==
    /\ mode = "encode"
    /\ \/ pc \in {"mask", "exp", "bfly"} /\ pending = {}
       \/ pc = "replica"

\* C24: encode_with_trees given exactly num_layers store configs, for every
\* config (num_expander_layers 0 or 1 and num_butterfly_layers 1 included):
\* the tree of layer j is in the j-th store config of the list, the configs
\* leave the list from its head one by one, the list is never empty when a
\* config is taken, and the replica tree is in the last config
C24_StoreConfigsInOrder ==
    (mode = "encode" /\ Len(store_in) = NumLayers(config)) =>
        /\ \A p \in DOMAIN trees : trees[p].store = store_in[p]
        /\ \E used \in 0..Len(store_in) :
              store_configs = SubSeq(store_in, used + 1, Len(store_in))
        /\ RemovesConfig => store_configs # <<>>
        /\ (pc = "returned" /\ status = "ok") =>
              /\ store_configs = <<>>
              /\ Len(trees) = NumLayers(config) - 1
              /\ replica_tree.store = store_in[NumLayers(config)]

====
